---------------------------- MODULE Spec2Model ----------------------------
(***************************************************************************)
(* Model of pyresistesdevice.device.ResistESDevice: the configuration      *)
(* frame encoder, the measurement frame validator and decoder, and the     *)
(* reception buffer of a device session.                                   *)
(*                                                                         *)
(* Bytes are integers 0..255.  Python lists and byte strings are           *)
(* sequences; Python index i is position i+1 of the sequence.              *)
(* Voltages are in hundredths of a volt, frequencies in whole units.       *)
(***************************************************************************)
EXTENDS Integers, Sequences, FiniteSets, TLC

VARIABLES
    channels_nb,    \* self.channels_nb
    recframe,       \* self.recframe, the reception buffer
    measureframe,   \* the buffer last handed to _from_measureframe
    measures,       \* what the last getrawmeasures returned
    extracted,      \* the results of the getrawmeasures calls that returned True
    linkpos,        \* how many bytes of the device's stream the link has delivered
    pc,             \* position in the acquisition cycle or in setconfig
    configparams,   \* the arguments of the last _to_configframe call
    configresult,   \* what the last _to_configframe call did
    voltage,        \* self.voltage
    frequency,      \* self.frequency
    impuls_nb,      \* self.impuls_nb
    integration_nb, \* self.integration_nb
    ackframe,       \* the acknowledgement handed to _verifconfigack
    ackresult,      \* what the last _verifconfigack call returned
    callresult,     \* how the running setconfig or acquiremeasures call ended
    linkops,        \* the calls made on the link, in order
    elapsed,        \* time.time() - begin inside flush, in ticks
    allmeasures,    \* what the last getallmeasures did
    output,         \* the lines the running acquiremeasures wrote to its output
    COMMONFIELDS_LIST,  \* the list object bound to the class attribute
    fieldnames,     \* what the last getallfieldnames or getrealfieldnames returned
    datetimedisplay,    \* the datetimedisplay argument of acquiremeasures
    calls           \* calls of the field-name methods and of acquiremeasures so far

\* the stored configuration besides channels_nb
sessionvars == <<voltage, frequency, impuls_nb, integration_nb>>

\* the state of a setconfig call
setconfigvars == <<ackframe, ackresult, callresult, linkops, elapsed>>

\* the state of an acquiremeasures call
fieldvars == <<COMMONFIELDS_LIST, fieldnames, datetimedisplay, calls>>
acquirevars == <<allmeasures, output, fieldvars>>

vars == <<channels_nb, recframe, measureframe, measures, extracted, linkpos, pc,
          configparams, configresult, voltage, frequency, impuls_nb,
          integration_nb, ackframe, ackresult, callresult, linkops, elapsed,
          allmeasures, output, COMMONFIELDS_LIST, fieldnames, datetimedisplay,
          calls>>

----------------------------------------------------------------------------
(* Class constants.                                                        *)

INJVOLT_MIN == 1655
INJVOLT_MAX == 19651
INJFREQ_MIN == 0
INJFREQ_MAX == 62499
UX_MAX == 255
FX_MAX == 33554431
IX_MAX == 127
TX_MAX == 16383
MEASUREFRAME_MINLENGTH == 14
POTENTIALVALUE_LENGTH == 4
CONFIGFRAME_LENGTH == 10
RI == 110
CONFIGRESPFRAME_LENGTH == CONFIGFRAME_LENGTH + 1

(* Bounds of the model.                                                    *)
MaxChannels == 2    \* configured channel counts 0..MaxChannels
MaxFlips == 2       \* tag bits of a frame that may be wrong at once
MaxExtra == 2       \* bytes a buffer may hold beyond a frame
NFrames == 3        \* frames the device streams
VoltSpread == 2     \* voltages tried on each side of a range limit
FlushTimeout == 1   \* flushtimeout, in clock ticks
MaxFlushReads == 3  \* link reads of one flush that may return data
MaxRequests == 1    \* key presses during one acquiremeasures
MaxCalls == 3       \* calls of the field-name methods and of acquiremeasures

----------------------------------------------------------------------------
(* Python's integer operators.                                             *)

Pow2(n) == 2^n

RECURSIVE BitAnd(_, _)
\* x & m for a mask m >= 0 (x may be negative: infinite two's complement)
BitAnd(x, m) ==
    IF m = 0 THEN 0
    ELSE (x % 2) * (m % 2) + 2 * BitAnd(x \div 2, m \div 2)

Shl(x, n) == x * Pow2(n)        \* x << n
Shr(x, n) == x \div Pow2(n)     \* x >> n (floor)

At(frame, i) == frame[i + 1]    \* frame[i]

----------------------------------------------------------------------------
(* Measurement frame validator.                                            *)

isbit7valueat1(byte) == BitAnd(byte, 128) = 128

isbit7valueat0(byte) == BitAnd(byte, 128) = 0

framelength(chn) == MEASUREFRAME_MINLENGTH + chn * 2 * POTENTIALVALUE_LENGTH

\* lengthvalid accepting a buffer longer than the frame
lengthvalid_atleast(mf, chn) ==
    /\ Len(mf) # 0
    /\ Len(mf) >= framelength(chn)

\* the two length tests at the head of _ismeasureframevalid
lengthvalid(mf, chn) ==
    /\ Len(mf) # 0
    /\ Len(mf) = framelength(chn)

\* headertagsvalid with the test of byte 1 inverted
headertagsvalid_byte1at0(mf) ==
    /\ isbit7valueat1(At(mf, 0))
    /\ isbit7valueat0(At(mf, 1))
    /\ isbit7valueat1(At(mf, 2))
    /\ isbit7valueat0(At(mf, 3))
    /\ isbit7valueat1(At(mf, 4))
    /\ isbit7valueat0(At(mf, 5))
    /\ isbit7valueat1(At(mf, 6))
    /\ isbit7valueat0(At(mf, 7))
    /\ isbit7valueat0(At(mf, 8))
    /\ isbit7valueat0(At(mf, 9))
    /\ isbit7valueat1(At(mf, 10))
    /\ isbit7valueat0(At(mf, 11))
    /\ isbit7valueat0(At(mf, 12))
    /\ isbit7valueat0(At(mf, 13))

\* the fourteen header tests, in the order of the code
headertagsvalid(mf) ==
    /\ isbit7valueat1(At(mf, 0))
    /\ isbit7valueat1(At(mf, 1))
    /\ isbit7valueat1(At(mf, 2))
    /\ isbit7valueat0(At(mf, 3))
    /\ isbit7valueat1(At(mf, 4))
    /\ isbit7valueat0(At(mf, 5))
    /\ isbit7valueat1(At(mf, 6))
    /\ isbit7valueat0(At(mf, 7))
    /\ isbit7valueat0(At(mf, 8))
    /\ isbit7valueat0(At(mf, 9))
    /\ isbit7valueat1(At(mf, 10))
    /\ isbit7valueat0(At(mf, 11))
    /\ isbit7valueat0(At(mf, 12))
    /\ isbit7valueat0(At(mf, 13))

\* the loop over the channels: the eight tests of iteration i start at
\* MEASUREFRAME_MINLENGTH + i*4
channeltagsvalid(mf, chn) ==
    \A i \in 0 .. chn - 1 :
        /\ isbit7valueat1(At(mf, MEASUREFRAME_MINLENGTH + i * 4))
        /\ isbit7valueat0(At(mf, MEASUREFRAME_MINLENGTH + i * 4 + 1))
        /\ isbit7valueat0(At(mf, MEASUREFRAME_MINLENGTH + i * 4 + 2))
        /\ isbit7valueat0(At(mf, MEASUREFRAME_MINLENGTH + i * 4 + 3))
        /\ isbit7valueat1(At(mf, MEASUREFRAME_MINLENGTH + i * 4 + 4))
        /\ isbit7valueat0(At(mf, MEASUREFRAME_MINLENGTH + i * 4 + 5))
        /\ isbit7valueat0(At(mf, MEASUREFRAME_MINLENGTH + i * 4 + 6))
        /\ isbit7valueat0(At(mf, MEASUREFRAME_MINLENGTH + i * 4 + 7))

ismeasureframevalid(mf, chn) ==
    IF ~lengthvalid(mf, chn) THEN FALSE
    ELSE IF ~headertagsvalid(mf) THEN FALSE
    ELSE channeltagsvalid(mf, chn)

----------------------------------------------------------------------------
(* Measurement frame decoder.                                              *)

\* word14 without the masks
word14_nomask(mf, off) == At(mf, off) + Shl(At(mf, off + 1), 7)

\* a 2-byte field at offset off: low 7 bits first
word14(mf, off) ==
    BitAnd(At(mf, off), 127) + Shl(BitAnd(At(mf, off + 1), 127), 7)

\* a 4-byte field at offset off, before the sign is recovered
word28(mf, off) ==
    BitAnd(At(mf, off), 127) + Shl(BitAnd(At(mf, off + 1), 127), 7)
        + Shl(BitAnd(At(mf, off + 2), 127), 14)
        + Shl(BitAnd(At(mf, off + 3), 127), 21)

\* if (x > pow(2,27)): x -= pow(2,28)
tosigned(raw) == IF raw > Pow2(27) THEN raw - Pow2(28) ELSE raw

\* offsets of the fields of channel i as the decoding loop computes them
phaseoffset(i) == MEASUREFRAME_MINLENGTH + i * 2
quadoffset(i) == MEASUREFRAME_MINLENGTH + i * 2 + 4

NoMeasures ==
    [result |-> FALSE, count |-> 0, recbatvoltage |-> 0, embatvoltage |-> 0,
     phasecurrent |-> 0, quadcurrent |-> 0,
     phasepotentialarray |-> << >>, quadpotentialarray |-> << >>]

from_measureframe(mf, chn) ==
    IF ~ismeasureframevalid(mf, chn) THEN NoMeasures
    ELSE [result |-> TRUE,
          count |-> word14(mf, 0),
          recbatvoltage |-> word14(mf, 2),
          embatvoltage |-> word14(mf, 4),
          phasecurrent |-> tosigned(word28(mf, 6)),
          quadcurrent |-> tosigned(word28(mf, 10)),
          phasepotentialarray |->
              [k \in 1 .. chn |-> tosigned(word28(mf, phaseoffset(k - 1)))],
          quadpotentialarray |->
              [k \in 1 .. chn |-> tosigned(word28(mf, quadoffset(k - 1)))]]

----------------------------------------------------------------------------
(* Configuration frame encoder.  A parameter is a record: isnum says       *)
(* whether it has the numeric type the function asks for, val is its value *)
(* (voltage in hundredths of a volt).                                      *)

Param(v) == [isnum |-> TRUE, val |-> v]
NotANumber == [isnum |-> FALSE, val |-> 0]

is_float(p) == p.isnum
is_integer(p) == p.isnum

\* voltageinrange with < in place of <= at the upper limit
voltageinrange_strictmax(v) == (v < INJVOLT_MAX) /\ (v >= INJVOLT_MIN)

\* voltageinrange without the upper limit
voltageinrange_nomax(v) == v >= INJVOLT_MIN

voltageinrange(v) == (v <= INJVOLT_MAX) /\ (v >= INJVOLT_MIN)

frequencyinrange(f) == (f <= INJFREQ_MAX) /\ (f >= INJFREQ_MIN)

\* round((256*((900/voltage)-0.08-4.5))/50) for voltage = v/100, v > 0:
\* the quotient is (288000000 - 14656*v) / (625*v), rounded to the nearest
\* integer (it is never half-way between two integers for 0 < v < 40000)
voltagetoUx(v) ==
    LET num == 288000000 - 14656 * v
        den == 625 * v
    IN  (2 * num + den) \div (2 * den)

\* round(frequency * (pow(2,28)/500000)) = round(f * 8388608 / 15625) for an
\* integer f, computed without leaving 32 bits (never half-way: 15625 is odd)
frequencytoFx(f) ==
    LET q == f \div 15625
        r == f % 15625
        a == (r * 4096) \div 15625
        b == (r * 4096) % 15625
    IN  q * 8388608 + a * 2048 + ((2 * b * 2048 + 15625) \div 31250)

\* packconfigframe with byte 7 appended without its mask
packconfigframe_nomask7(Ux, Fx, impuls, channels, integration) ==
    << 129 + Shl(BitAnd(Ux, 63), 1),
       Shr(BitAnd(Ux, 192), 6),
       BitAnd(Fx, 127),
       Shr(BitAnd(Fx, 16256), 7),
       Shr(BitAnd(Fx, 2080768), 14),
       Shr(BitAnd(Fx, 266338304), 21),
       BitAnd(impuls, 127),
       channels,
       BitAnd(integration, 127),
       Shr(BitAnd(integration, 16256), 7) >>

\* packconfigframe with byte 1 shifted by 5 instead of 6
packconfigframe_shift5(Ux, Fx, impuls, channels, integration) ==
    << 129 + Shl(BitAnd(Ux, 63), 1),
       Shr(BitAnd(Ux, 192), 5),
       BitAnd(Fx, 127),
       Shr(BitAnd(Fx, 16256), 7),
       Shr(BitAnd(Fx, 2080768), 14),
       Shr(BitAnd(Fx, 266338304), 21),
       BitAnd(impuls, 127),
       BitAnd(channels, 127),
       BitAnd(integration, 127),
       Shr(BitAnd(integration, 16256), 7) >>

\* the ten config_frame.append(...) lines
packconfigframe(Ux, Fx, impuls, channels, integration) ==
    << 129 + Shl(BitAnd(Ux, 63), 1),            \* 0x81 + ((Ux&0x003F)<<1)
       Shr(BitAnd(Ux, 192), 6),                 \* (Ux&0x00C0)>>6
       BitAnd(Fx, 127),                         \* Fx&0x0000007F
       Shr(BitAnd(Fx, 16256), 7),               \* (Fx&0x00003F80)>>7
       Shr(BitAnd(Fx, 2080768), 14),            \* (Fx&0x001FC000)>>14
       Shr(BitAnd(Fx, 266338304), 21),          \* (Fx&0x0FE00000)>>21
       BitAnd(impuls, 127),                     \* impuls_nb&0x7F
       BitAnd(channels, 127),                   \* channels_nb&0x7F
       BitAnd(integration, 127),                \* integration_nb&0x007F
       Shr(BitAnd(integration, 16256), 7) >>    \* (integration_nb&0x3F80)>>7

RECURSIVE hexdigits(_)
\* the hexadecimal digits of b >= 0, most significant first
hexdigits(b) == IF b < 16 THEN <<b>> ELSE hexdigits(b \div 16) \o <<b % 16>>

\* "%02X" % b
format02X(b) == IF b < 16 THEN <<0>> \o hexdigits(b) ELSE hexdigits(b)

\* config_hexstring: the ten bytes formatted, one word each
confighexstring(frame) == [j \in 1 .. Len(frame) |-> format02X(frame[j])]

RECURSIVE joindigits(_)
joindigits(words) ==
    IF words = << >> THEN << >> ELSE Head(words) \o joindigits(Tail(words))

\* utils.hex_to_bytes: the digits of the string, two per byte
hex_to_bytes(words) ==
    LET d == joindigits(words)
    IN  [j \in 1 .. Len(d) \div 2 |-> 16 * d[2 * j - 1] + d[2 * j]]

Raised == [called |-> TRUE, raised |-> TRUE, frame |-> << >>]
Returned(frame) == [called |-> TRUE, raised |-> FALSE, frame |-> frame]

to_configframe(volt, freq, impuls, channels, integration) ==
    IF ~is_float(volt) THEN Raised
    ELSE IF ~voltageinrange(volt.val) THEN Raised
    ELSE IF voltagetoUx(volt.val) > UX_MAX THEN Raised
    ELSE IF ~is_float(freq) THEN Raised
    ELSE IF ~frequencyinrange(freq.val) THEN Raised
    ELSE IF frequencytoFx(freq.val) > FX_MAX THEN Raised
    ELSE IF ~is_integer(impuls) THEN Raised
    ELSE IF ~(impuls.val <= IX_MAX) THEN Raised
    ELSE IF ~is_integer(channels) THEN Raised
    ELSE IF ~(channels.val <= UX_MAX) THEN Raised
    ELSE IF ~is_integer(integration) THEN Raised
    ELSE IF ~(integration.val <= TX_MAX) THEN Raised
    ELSE Returned(hex_to_bytes(confighexstring(
             packconfigframe(voltagetoUx(volt.val), frequencytoFx(freq.val),
                             impuls.val, channels.val, integration.val))))

----------------------------------------------------------------------------
(* Conversion to real values.  A Python float is modelled by the exact     *)
(* rational it approximates, a record [num, den] in lowest terms with      *)
(* den > 0.  Battery voltages are in volts.  Potentials and currents are   *)
(* in units of 5000/2^28 (mV and mA), the value of one potential code, so  *)
(* that products and quotients stay within 32 bits; a resistivity, being   *)
(* 1000 times a quotient of two products of these, is in the unit of the   *)
(* code.  A float division raises ZeroDivisionError when its divisor is    *)
(* zero, and the divisor is zero exactly when the rational is.             *)

RECURSIVE Gcd(_, _)
Gcd(a, b) == IF b = 0 THEN a ELSE Gcd(b, a % b)

Abs(x) == IF x < 0 THEN -x ELSE x

\* n/d in lowest terms, d > 0
Rat(n, d) ==
    LET g == Gcd(Abs(n), d) IN [num |-> n \div g, den |-> d \div g]

RMul(a, b) == Rat(a.num * b.num, a.den * b.den)
RAdd(a, b) == Rat(a.num * b.den + b.num * a.den, a.den * b.den)
RSub(a, b) == Rat(a.num * b.den - b.num * a.den, a.den * b.den)

\* a / b for b # 0
RDiv(a, b) ==
    IF b.num > 0 THEN Rat(a.num * b.den, a.den * b.num)
    ELSE Rat(-(a.num * b.den), -(a.den * b.num))

\* (18.3*batvoltage)/16383
torealbatvoltage(code) == Rat(183 * code, 163830)

\* (potentialcodedvalue*5000)/pow(2, 28)
topotentialrealvalue(code) == Rat(code, 1)

\* (currentcodedvalue*5000000)/(self.RI*pow(2, 28))
tocurrentrealvalue(code) == Rat(code * 1000, RI)

\* the divisor pow(phasecurrentscalarvalue,2) + pow(quadcurrentscalarvalue,2)
squaredcurrent(Ip, Iq) == RAdd(RMul(Ip, Ip), RMul(Iq, Iq))

\* a float division by x raises ZeroDivisionError
divisorzero(x) == x.num = 0

ResistivityRaised ==
    [raised |-> TRUE, phase |-> [num |-> 0, den |-> 1], quad |-> [num |-> 0, den |-> 1]]

toresistivityvalue(Ip, Iq, Vp, Vq) ==
    IF divisorzero(squaredcurrent(Ip, Iq)) THEN ResistivityRaised
    ELSE [raised |-> FALSE,
          phase |-> RDiv(RMul(Rat(1000, 1), RAdd(RMul(Vp, Ip), RMul(Vq, Iq))),
                         squaredcurrent(Ip, Iq)),
          quad |-> RDiv(RMul(Rat(1000, 1), RSub(RMul(Vq, Ip), RMul(Vp, Iq))),
                        squaredcurrent(Ip, Iq))]

\* no call of getallmeasures has been made
NoAllMeasures ==
    [called |-> FALSE, raised |-> FALSE, result |-> FALSE, count |-> 0,
     recrealbatvoltage |-> [num |-> 0, den |-> 1],
     emrealbatvoltage |-> [num |-> 0, den |-> 1],
     phasecurrentrealvalue |-> [num |-> 0, den |-> 1],
     quadcurrentrealvalue |-> [num |-> 0, den |-> 1],
     phasepotentialrealarray |-> << >>, quadpotentialrealarray |-> << >>,
     phaseresistivityarray |-> << >>, quadresistivityarray |-> << >>]

\* getallmeasures on what getrawmeasures returned.  The magnitudes computed by
\* fromphaseandquadrature are not returned and are left out.
getallmeasures(raw) ==
    LET n == Len(raw.phasepotentialarray)
        Ip == tocurrentrealvalue(raw.phasecurrent)
        Iq == tocurrentrealvalue(raw.quadcurrent)
        Vp == [l \in 1 .. n |-> topotentialrealvalue(raw.phasepotentialarray[l])]
        Vq == [l \in 1 .. n |-> topotentialrealvalue(raw.quadpotentialarray[l])]
        rho == [l \in 1 .. n |-> toresistivityvalue(Ip, Iq, Vp[l], Vq[l])]
    IN  IF raw.result # TRUE
        THEN [NoAllMeasures EXCEPT !.called = TRUE,
                  !.recrealbatvoltage = torealbatvoltage(raw.recbatvoltage),
                  !.emrealbatvoltage = torealbatvoltage(raw.embatvoltage)]
        ELSE IF \E l \in 1 .. n : rho[l].raised
        THEN [NoAllMeasures EXCEPT !.called = TRUE, !.raised = TRUE]
        ELSE [called |-> TRUE, raised |-> FALSE, result |-> TRUE,
              count |-> raw.count,
              recrealbatvoltage |-> torealbatvoltage(raw.recbatvoltage),
              emrealbatvoltage |-> torealbatvoltage(raw.embatvoltage),
              phasecurrentrealvalue |-> Ip,
              quadcurrentrealvalue |-> Iq,
              phasepotentialrealarray |-> Vp,
              quadpotentialrealarray |-> Vq,
              phaseresistivityarray |-> [l \in 1 .. n |-> rho[l].phase],
              quadresistivityarray |-> [l \in 1 .. n |-> rho[l].quad]]

\* the data row acquiremeasures builds from what getallmeasures returned
\* (datetimedisplay false)
datarow(am, chn) ==
    [j \in 1 .. 5 + 4 * chn |->
        IF j = 1 THEN am.count
        ELSE IF j = 2 THEN am.recrealbatvoltage
        ELSE IF j = 3 THEN am.emrealbatvoltage
        ELSE IF j = 4 THEN am.phasecurrentrealvalue
        ELSE IF j = 5 THEN am.quadcurrentrealvalue
        ELSE LET n == ((j - 6) \div 4) + 1
                 f == (j - 6) % 4
             IN  IF f = 0 THEN am.phasepotentialrealarray[n]
                 ELSE IF f = 1 THEN am.quadpotentialrealarray[n]
                 ELSE IF f = 2 THEN am.phaseresistivityarray[n]
                 ELSE am.quadresistivityarray[n]]

\* the data row when datetimedisplay is true: datetime.utcnow() comes first
dateddatarow(am, chn) == <<"utcnow">> \o datarow(am, chn)

----------------------------------------------------------------------------
(* Field names.  A plain name is <<text>>; text % i is <<text, i>>.        *)
(* fieldnames = self.COMMONFIELDS_LIST binds the list object of the class  *)
(* attribute, so each append changes the class attribute as well.          *)

DATEFIELD == <<"date">>

\* the list the class statement binds to COMMONFIELDS_LIST
COMMONFIELDS ==
    << <<"count">>, <<"rec. batt. voltage(V)">>, <<"em. batt. voltage(V)">>,
       <<"phase current(mA)">>, <<"quad. current(mA)">> >>

POTENTIALFIELDS_LIST ==
    <<"phase potential(mV) (ch%d)", "quad. potential(mV) (ch%d)">>

RESISTIVITYFIELDS_LIST ==
    <<"phase resistivity(kOhm.m) (ch%d)", "quad. resistivity(kOhm.m) (ch%d)">>

\* text % i
formatted(text, i) == <<text, i>>

\* the names getallfieldnames appends for channel i
allchannelfields(i) ==
    [n \in 1 .. Len(POTENTIALFIELDS_LIST) |->
        formatted(POTENTIALFIELDS_LIST[n], i)]
    \o [n \in 1 .. Len(RESISTIVITYFIELDS_LIST) |->
        formatted(RESISTIVITYFIELDS_LIST[n], i)]

\* the names getrealfieldnames appends for channel i
realchannelfields(i) ==
    [n \in 1 .. Len(POTENTIALFIELDS_LIST) |->
        formatted(POTENTIALFIELDS_LIST[n], i)]

\* the names acquiremeasures appends to its header for channel n: both loops
\* run over range(len(POTENTIALFIELDS_LIST))
headerchannelfields(n) ==
    [i \in 1 .. Len(POTENTIALFIELDS_LIST) |->
        formatted(POTENTIALFIELDS_LIST[i], n)]
    \o [i \in 1 .. Len(POTENTIALFIELDS_LIST) |->
        formatted(RESISTIVITYFIELDS_LIST[i], n)]

\* list after the turns i, i+1, ... chn-1 of the loop of getallfieldnames
RECURSIVE allfieldsfrom(_, _, _)
allfieldsfrom(list, chn, i) ==
    IF i >= chn THEN list
    ELSE allfieldsfrom(list \o allchannelfields(i), chn, i + 1)

\* list after the turns i, i+1, ... chn-1 of the loop of getrealfieldnames
RECURSIVE realfieldsfrom(_, _, _)
realfieldsfrom(list, chn, i) ==
    IF i >= chn THEN list
    ELSE realfieldsfrom(list \o realchannelfields(i), chn, i + 1)

\* list after the turns n, n+1, ... chn-1 of the header loop of acquiremeasures
RECURSIVE headerfieldsfrom(_, _, _)
headerfieldsfrom(list, chn, n) ==
    IF n >= chn THEN list
    ELSE headerfieldsfrom(list \o headerchannelfields(n), chn, n + 1)

\* what getallfieldnames returns when the class list holds common; the class
\* list is the same object and holds the same names afterwards
getallfieldnames(common, chn) == allfieldsfrom(common, chn, 0)

\* what getrealfieldnames returns when the class list holds common; the class
\* list is the same object and holds the same names afterwards
getrealfieldnames(common, chn) == realfieldsfrom(common, chn, 0)

\* the header acquiremeasures builds when the class list holds common
headerfields(common, chn, dtd) ==
    IF dtd = TRUE
    THEN headerfieldsfrom(<<DATEFIELD>> \o common, chn, 0)
    ELSE headerfieldsfrom(common, chn, 0)

\* the class list after acquiremeasures has built its header: with
\* datetimedisplay the header is a new list, without it the header is the
\* class list itself
commonafterheader(common, chn, dtd) ==
    IF dtd = TRUE THEN common ELSE headerfieldsfrom(common, chn, 0)

\* no field-name method has been called
NoFieldNames == [called |-> FALSE, method |-> "none", value |-> << >>]

\* output.write(todisplay + '\n') of the header and of a data row; the fields
\* are those joined by delim
headerline(fields) == [written |-> "header", fields |-> fields]
dataline(fields) == [written |-> "data", fields |-> fields]

----------------------------------------------------------------------------
(* The frames the device sends, as the docstring of _from_measureframe     *)
(* lays them out: the byte holding bits 6..0 of a field carries tag 1, the *)
(* other bytes of the field tag 0, except byte 1 (high byte of the measure *)
(* count) which carries tag 1.                                             *)

enc14byte(v, j, hightag) ==
    IF j = 0 THEN 128 + (v % 128) ELSE hightag * 128 + ((v \div 128) % 128)

enc28byte(v, j) ==
    (IF j = 0 THEN 128 ELSE 0) + ((v \div Pow2(7 * j)) % 128)

\* pots: the raw 28-bit codes <<phase0, quad0, phase1, quad1, ...>>
deviceframe(cnt, rec, em, ip, iq, pots) ==
    [j \in 1 .. MEASUREFRAME_MINLENGTH + 4 * Len(pots) |->
        LET i == j - 1 IN
        IF i < 2 THEN enc14byte(cnt, i, 1)
        ELSE IF i < 4 THEN enc14byte(rec, i - 2, 0)
        ELSE IF i < 6 THEN enc14byte(em, i - 4, 0)
        ELSE IF i < 10 THEN enc28byte(ip, i - 6)
        ELSE IF i < 14 THEN enc28byte(iq, i - 10)
        ELSE enc28byte(pots[(i - 14) \div 4 + 1], (i - 14) % 4)]

\* the frame with the tag bit of every position in S inverted
fliptags(frame, S) ==
    [j \in 1 .. Len(frame) |->
        IF (j - 1) \in S THEN (frame[j] + 128) % 256 ELSE frame[j]]

RECURSIVE FlipSets(_, _)
\* the sets of at most k positions among 0..len-1
FlipSets(len, k) ==
    IF k = 0 THEN {{}}
    ELSE LET prev == FlipSets(len, k - 1)
         IN  prev \cup {S \cup {p} : S \in prev, p \in 0 .. len - 1}

CodeSamples == {0, 5, Pow2(27) - 1, Pow2(27), Pow2(27) + 5, Pow2(28) - 1}
PotSamples == {1, 5, Pow2(27) + 5}
HeaderSamples == {<<0, 0, 0>>, <<1, 16383, 129>>, <<16383, 128, 127>>, <<300, 1, 2>>}

BaseFrame(chn) ==
    deviceframe(1, 2, 3, 5, 6, [j \in 1 .. 2 * chn |-> 6 + j])

\* frames with every tag bit right: the header fields, the currents and the
\* potentials each range over their samples
WellFormedFrames(chn) ==
    {deviceframe(h[1], h[2], h[3], 5, 6, [j \in 1 .. 2 * chn |-> 6 + j]) :
        h \in HeaderSamples}
    \cup {deviceframe(1, 2, 3, ip, iq, [j \in 1 .. 2 * chn |-> 6 + j]) :
        ip \in CodeSamples, iq \in CodeSamples}
    \cup {deviceframe(1, 2, 3, 5, 6, pots) : pots \in [1 .. 2 * chn -> PotSamples]}

FlippedFrames(chn) ==
    {fliptags(BaseFrame(chn), S) : S \in FlipSets(framelength(chn), MaxFlips)}

\* buffers that hold less or more than one frame
MisalignedFrames(chn) ==
    {SubSeq(BaseFrame(chn), 1, k) : k \in 0 .. framelength(chn) - 1}
    \cup {BaseFrame(chn) \o SubSeq(BaseFrame(chn), 1, k) : k \in 1 .. MaxExtra}
    \cup {BaseFrame(chn + 1), BaseFrame(chn) \o BaseFrame(chn)}

BufferInputs(chn) ==
    WellFormedFrames(chn) \cup FlippedFrames(chn) \cup MisalignedFrames(chn)

----------------------------------------------------------------------------
(* Session operations on the reception buffer.                             *)

\* clearedframe clearing the buffer whatever the result
clearedframe_always(r, frame) == << >>

\* if (result == True): self.recframe.clear()
clearedframe(r, frame) == IF r.result = TRUE THEN << >> ELSE frame

\* updatereceptionframe, the link read having returned bytes
UpdateReceptionFrame(bytes) ==
    /\ recframe' = (IF Len(bytes) > 0 THEN recframe \o bytes ELSE recframe)
    /\ UNCHANGED <<channels_nb, measureframe, measures, extracted,
                   configparams, configresult>>

GetRawMeasures ==
    LET r == from_measureframe(recframe, channels_nb) IN
    /\ measureframe' = recframe
    /\ measures' = r
    /\ recframe' = clearedframe(r, recframe)
    /\ extracted' = (IF r.result = TRUE THEN Append(extracted, r) ELSE extracted)
    /\ UNCHANGED <<channels_nb, configparams, configresult>>

\* no call of _to_configframe has been made
NoConfigCall == [called |-> FALSE]
NoConfigResult == [called |-> FALSE, raised |-> FALSE, frame |-> << >>]

\* no call of _verifconfigack has been made
NoAck == [called |-> FALSE, ack |-> FALSE, run |-> 0, boardid |-> 0]

\* the stored configuration after a setconfig(50.0, 1000, 5, chn, 300) that the
\* device acknowledged
ConfiguredSession(chn) ==
    /\ channels_nb = chn
    /\ voltage = 5000
    /\ frequency = 1000
    /\ impuls_nb = 5
    /\ integration_nb = 300

\* the stored configuration __init__ leaves
FreshSession ==
    /\ channels_nb = 0
    /\ voltage = 0
    /\ frequency = 0
    /\ impuls_nb = 0
    /\ integration_nb = 0

\* no setconfig call is running
NoSetconfig ==
    /\ ackframe = << >>
    /\ ackresult = NoAck
    /\ callresult = "none"
    /\ linkops = << >>
    /\ elapsed = 0

\* no acquiremeasures call is running
NoAcquire ==
    /\ allmeasures = NoAllMeasures
    /\ output = << >>
    /\ COMMONFIELDS_LIST = COMMONFIELDS
    /\ fieldnames = NoFieldNames
    /\ datetimedisplay = FALSE
    /\ calls = 0

----------------------------------------------------------------------------
(* Validator and decoder on every buffer content of BufferInputs: the      *)
(* session is configured for channels_nb channels and the link has filled  *)
(* the reception buffer.                                                   *)

InitFrame ==
    /\ \E chn \in 0 .. MaxChannels : ConfiguredSession(chn)
    /\ NoSetconfig
    /\ NoAcquire
    /\ recframe \in BufferInputs(channels_nb)
    /\ measureframe = << >>
    /\ measures = NoMeasures
    /\ extracted = << >>
    /\ linkpos = 0
    /\ pc = "get"
    /\ configparams = NoConfigCall
    /\ configresult = NoConfigResult

FrameGet ==
    /\ GetRawMeasures
    /\ UNCHANGED <<linkpos, pc, sessionvars, setconfigvars, acquirevars>>

NextFrame == FrameGet

SpecFrame == InitFrame /\ [][NextFrame]_vars

----------------------------------------------------------------------------
(* The decoder on frames that carry every 14-bit value in each of the      *)
(* three 2-byte header fields.                                             *)

\* values tried in the header fields of frames with channels
Sample14 == {0, 127, 128, 16383}

\* a well-formed frame carrying v in header field fld (0: measure count,
\* 1: reception battery, 2: emission battery) and its complement in the others
HeaderFrame(chn, fld, v) ==
    deviceframe(IF fld = 0 THEN v ELSE 16383 - v,
                IF fld = 1 THEN v ELSE 16383 - v,
                IF fld = 2 THEN v ELSE 16383 - v,
                5, 6, [j \in 1 .. 2 * chn |-> 6 + j])

InitHeader ==
    /\ \E chn \in 0 .. MaxChannels : ConfiguredSession(chn)
    /\ NoSetconfig
    /\ NoAcquire
    /\ \E fld \in 0 .. 2 :
        \E v \in (IF channels_nb = 0 THEN 0 .. 16383 ELSE Sample14) :
            recframe = HeaderFrame(channels_nb, fld, v)
    /\ measureframe = << >>
    /\ measures = NoMeasures
    /\ extracted = << >>
    /\ linkpos = 0
    /\ pc = "get"
    /\ configparams = NoConfigCall
    /\ configresult = NoConfigResult

HeaderGet == FrameGet

NextHeader == HeaderGet

SpecHeader == InitHeader /\ [][NextHeader]_vars

----------------------------------------------------------------------------
(* The acquisition cycle on a stream of back-to-back frames: the device    *)
(* sends NFrames frames, numbered 1..NFrames in their measure count, and   *)
(* each link read returns any number of the bytes not yet delivered.       *)

StreamFrame(chn, i) ==
    deviceframe(i, 2, 3, 5, 6, [j \in 1 .. 2 * chn |-> 6 + j])

StreamLength(chn) == NFrames * framelength(chn)

\* byte p (from 0) of the stream
StreamByte(chn, p) ==
    StreamFrame(chn, (p \div framelength(chn)) + 1)[(p % framelength(chn)) + 1]

\* the k bytes the link delivers next
LinkRead(chn, k) == [j \in 1 .. k |-> StreamByte(chn, linkpos + j - 1)]

InitStream ==
    /\ \E chn \in 0 .. MaxChannels : ConfiguredSession(chn)
    /\ NoSetconfig
    /\ NoAcquire
    /\ recframe = << >>
    /\ measureframe = << >>
    /\ measures = NoMeasures
    /\ extracted = << >>
    /\ linkpos = 0
    /\ pc = "update"
    /\ configparams = NoConfigCall
    /\ configresult = NoConfigResult

\* acquiremeasures: self.updatereceptionframe(None, 0.1)
StreamUpdate ==
    /\ pc = "update"
    /\ \E k \in 0 .. StreamLength(channels_nb) - linkpos :
        /\ UpdateReceptionFrame(LinkRead(channels_nb, k))
        /\ linkpos' = linkpos + k
    /\ pc' = "get"
    /\ UNCHANGED <<sessionvars, setconfigvars, acquirevars>>

\* acquiremeasures: self.getallmeasures(), which calls getrawmeasures
StreamGet ==
    /\ pc = "get"
    /\ GetRawMeasures
    /\ pc' = "update"
    /\ UNCHANGED <<linkpos, sessionvars, setconfigvars, acquirevars>>

NextStream == StreamUpdate \/ StreamGet

SpecStream == InitStream /\ [][NextStream]_vars

----------------------------------------------------------------------------
(* The encoder on a call with each of the sampled parameter tuples.        *)

VoltSamples ==
    {INJVOLT_MIN + d : d \in -VoltSpread .. VoltSpread}
    \cup {INJVOLT_MAX + d : d \in -VoltSpread .. VoltSpread}
    \cup {0, 1000, 5000, 30000}
FreqSamples ==
    {INJFREQ_MIN - 1, INJFREQ_MIN, INJFREQ_MIN + 1, 1000,
     INJFREQ_MAX - 1, INJFREQ_MAX, INJFREQ_MAX + 1}
ImpulsSamples == {-1, 0, 5, IX_MAX, IX_MAX + 1}
ChannelsSamples == {-1, 0, 2, 127, 128, UX_MAX, UX_MAX + 1}
IntegrationSamples == {-129, 0, 300, TX_MAX, TX_MAX + 1}

Params(S) == {Param(v) : v \in S} \cup {NotANumber}

ConfigCall(v, f, i, c, t) ==
    [called |-> TRUE, voltage |-> v, frequency |-> f, impuls_nb |-> i,
     channels_nb |-> c, integration_nb |-> t]

\* the limits of every range and their neighbours, in every combination
CornerInput(call) ==
    \E v \in Params(VoltSamples), f \in Params(FreqSamples),
       i \in Params(ImpulsSamples), c \in Params(ChannelsSamples),
       t \in Params(IntegrationSamples) :
        call = ConfigCall(v, f, i, c, t)

\* every voltage of the range
VoltageSweepInput(call) ==
    \E v \in INJVOLT_MIN .. INJVOLT_MAX :
        call = ConfigCall(Param(v), Param(1000), Param(5), Param(2), Param(300))

\* frequencies across the range
FrequencySweepInput(call) ==
    \E k \in 0 .. INJFREQ_MAX \div 61 :
        call = ConfigCall(Param(5000), Param(61 * k), Param(5), Param(2), Param(300))

InitConfig ==
    /\ FreshSession
    /\ NoSetconfig
    /\ NoAcquire
    /\ recframe = << >>
    /\ measureframe = << >>
    /\ measures = NoMeasures
    /\ extracted = << >>
    /\ linkpos = 0
    /\ pc = "config"
    /\ \/ CornerInput(configparams)
       \/ VoltageSweepInput(configparams)
       \/ FrequencySweepInput(configparams)
    /\ configresult = NoConfigResult

\* a call of _to_configframe with the parameters configparams
ToConfigframe ==
    /\ configresult.called = FALSE
    /\ configparams.called = TRUE
    /\ configresult' = to_configframe(configparams.voltage, configparams.frequency,
                                      configparams.impuls_nb, configparams.channels_nb,
                                      configparams.integration_nb)
    /\ UNCHANGED <<channels_nb, recframe, measureframe, measures, extracted,
                   linkpos, pc, configparams, sessionvars, setconfigvars,
                   acquirevars>>

NextConfig == ToConfigframe

SpecConfig == InitConfig /\ [][NextConfig]_vars

----------------------------------------------------------------------------
(* Acknowledgement verifier.                                               *)

\* ackechoes comparing all but the last byte of the configuration frame
ackechoes_butlast(ack, cf) ==
    \A l \in 0 .. Len(cf) - 2 : At(ack, l) = At(cf, l)

\* the loop over the configuration frame: no byte of the acknowledgement
\* differs from the byte of the configuration frame at the same place
ackechoes(ack, cf) ==
    \A l \in 0 .. Len(cf) - 1 : At(ack, l) = At(cf, l)

\* run = (ackframe[-1] & 0x01)
ackrun(ack) == BitAnd(At(ack, Len(ack) - 1), 1)

\* ackboardid without its mask
ackboardid_nomask(ack) == Shr(At(ack, Len(ack) - 1), 1)

\* boardid = (ackframe[-1] & 0x7E) >> 1
ackboardid(ack) == Shr(BitAnd(At(ack, Len(ack) - 1), 126), 1)

AckFailed == [called |-> TRUE, ack |-> FALSE, run |-> 0, boardid |-> 0]

verifconfigack(ack, cf) ==
    IF Len(ack) # Len(cf) + 1 THEN AckFailed
    ELSE IF ~ackechoes(ack, cf) THEN AckFailed
    ELSE [called |-> TRUE, ack |-> TRUE, run |-> ackrun(ack),
          boardid |-> ackboardid(ack)]

----------------------------------------------------------------------------
(* The verifier on the acknowledgements a link read can hand it for a      *)
(* configuration frame the encoder returned.                               *)

\* the calls whose configuration frames are acknowledged
AckedCalls ==
    {ConfigCall(Param(5000), Param(1000), Param(5), Param(2), Param(300)),
     ConfigCall(Param(INJVOLT_MIN), Param(0), Param(0), Param(0), Param(0)),
     ConfigCall(Param(INJVOLT_MAX), Param(INJFREQ_MAX), Param(IX_MAX),
                Param(UX_MAX), Param(TX_MAX))}

encoded(call) ==
    to_configframe(call.voltage, call.frequency, call.impuls_nb,
                   call.channels_nb, call.integration_nb)

\* frame with the byte at position j (from 0) replaced by b
withbyte(frame, j, b) == [k \in 1 .. Len(frame) |-> IF k = j + 1 THEN b ELSE frame[k]]

\* the echo of cf followed by each status byte; every proper prefix of an
\* acknowledgement; acknowledgements with bytes after the status byte; echoes
\* with one byte changed in its low bit or in its bit 7
AckInputs(cf) ==
    {cf \o <<s>> : s \in 0 .. 255}
    \cup {SubSeq(cf \o <<5>>, 1, k) : k \in 0 .. Len(cf)}
    \cup {cf \o <<s>> \o SubSeq(cf, 1, k) : s \in {0, 5}, k \in 1 .. MaxExtra}
    \cup {withbyte(cf, j, (cf[j + 1] + d) % 256) \o <<s>> :
            j \in 0 .. Len(cf) - 1, d \in {1, 128}, s \in {0, 5, 255}}

InitAck ==
    /\ FreshSession
    /\ recframe = << >>
    /\ measureframe = << >>
    /\ measures = NoMeasures
    /\ extracted = << >>
    /\ linkpos = 0
    /\ pc = "ack"
    /\ configparams \in AckedCalls
    /\ configresult = encoded(configparams)
    /\ ackframe \in AckInputs(configresult.frame)
    /\ ackresult = NoAck
    /\ callresult = "none"
    /\ linkops = << >>
    /\ elapsed = 0
    /\ NoAcquire

\* a call of _verifconfigack(ackframe, configframe)
VerifConfigAck ==
    /\ pc = "ack"
    /\ ackresult.called = FALSE
    /\ ackresult' = verifconfigack(ackframe, configresult.frame)
    /\ UNCHANGED <<channels_nb, recframe, measureframe, measures, extracted,
                   linkpos, pc, configparams, configresult, sessionvars,
                   ackframe, callresult, linkops, elapsed, acquirevars>>

NextAck == VerifConfigAck

SpecAck == InitAck /\ [][NextAck]_vars

----------------------------------------------------------------------------
(* setconfig, step by step: the encoder, flush, send, the read of the      *)
(* acknowledgement and its verification.  Every call made on the link is   *)
(* appended to linkops.                                                    *)

\* size=None of link.read
NoSize == 0

\* self.link.read(size, timeout=...) having returned data
linkread(size, data) == [op |-> "read", size |-> size, data |-> data]

\* self.link.write(data)
linkwrite(data) == [op |-> "write", size |-> Len(data), data |-> data]

\* flushexpired with the timeout never reached
flushexpired_never(e) == FALSE

\* time.time() - begin > flushtimeout
flushexpired(e) == e > FlushTimeout

\* sendwrites writing the data a second time
sendwrites_twice(data) == <<linkwrite(data), linkwrite(data)>>

\* send(data) without wait_ack: the link calls it makes
sendwrites(data) == <<linkwrite(data)>>

\* ackaccepted whatever _verifconfigack returned
ackaccepted_always(r) == TRUE

\* if (ack == True)
ackaccepted(r) == r.ack = TRUE

\* what a read of the link may return while flush runs
FlushChunks == {<< >>, <<129, 0>>}

\* what receive(CONFIGRESPFRAME_LENGTH) may return after cf was written: the
\* acknowledgements of at most that many bytes, with three status bytes
AckReplies(cf) ==
    {a \in AckInputs(cf) :
        /\ Len(a) <= CONFIGRESPFRAME_LENGTH
        /\ Len(a) = CONFIGRESPFRAME_LENGTH => a[Len(a)] \in {0, 5, 255}}

\* calls the encoder rejects
RejectedCalls ==
    {ConfigCall(Param(0), Param(1000), Param(5), Param(2), Param(300)),
     ConfigCall(Param(5000), NotANumber, Param(5), Param(2), Param(300)),
     ConfigCall(Param(5000), Param(1000), Param(5), Param(UX_MAX + 1), Param(300))}

\* a setconfig call on a new session or on a configured one, whose reception
\* buffer is empty or holds bytes of an earlier acquisition
InitSetconfig ==
    /\ FreshSession \/ ConfiguredSession(1)
    /\ recframe \in {<< >>, SubSeq(BaseFrame(0), 1, 5)}
    /\ measureframe = << >>
    /\ measures = NoMeasures
    /\ extracted = << >>
    /\ linkpos = 0
    /\ pc = "encode"
    /\ configparams \in AckedCalls \cup RejectedCalls
    /\ configresult = NoConfigResult
    /\ NoSetconfig
    /\ NoAcquire

\* configframe = self._to_configframe(...), then begin = time.time() in flush
SetconfigEncode ==
    /\ pc = "encode"
    /\ configresult' = encoded(configparams)
    /\ IF encoded(configparams).raised
       THEN callresult' = "BadConfigParamException" /\ pc' = "done"
       ELSE callresult' = callresult /\ pc' = "flush"
    /\ elapsed' = 0
    /\ UNCHANGED <<channels_nb, recframe, measureframe, measures, extracted,
                   linkpos, configparams, sessionvars, ackframe, ackresult,
                   linkops, acquirevars>>

\* one turn of the loop of flush: the read returns buffer and d ticks have
\* passed when time.time() is read
FlushRead ==
    /\ pc = "flush"
    /\ \E buffer \in FlushChunks, d \in 0 .. 1 :
        /\ Len(buffer) > 0 => Len(linkops) < MaxFlushReads
        /\ linkops' = Append(linkops, linkread(NoSize, buffer))
        /\ elapsed' = elapsed + d
        /\ IF Len(buffer) = 0
           THEN callresult' = callresult /\ pc' = "send"
           ELSE IF flushexpired(elapsed + d)
           THEN callresult' = "BadFlushException" /\ pc' = "done"
           ELSE callresult' = callresult /\ pc' = "flush"
    /\ UNCHANGED <<channels_nb, recframe, measureframe, measures, extracted,
                   linkpos, configparams, configresult, sessionvars, ackframe,
                   ackresult, acquirevars>>

\* self.send(configframe, timeout=timeout)
SetconfigSend ==
    /\ pc = "send"
    /\ linkops' = linkops \o sendwrites(configresult.frame)
    /\ pc' = "receive"
    /\ UNCHANGED <<channels_nb, recframe, measureframe, measures, extracted,
                   linkpos, configparams, configresult, sessionvars, ackframe,
                   ackresult, callresult, elapsed, acquirevars>>

\* ackframe = self.receive(self.CONFIGRESPFRAME_LENGTH, timeout=timeout)
SetconfigReceive ==
    /\ pc = "receive"
    /\ \E ack \in AckReplies(configresult.frame) :
        /\ ackframe' = ack
        /\ linkops' = Append(linkops, linkread(CONFIGRESPFRAME_LENGTH, ack))
    /\ pc' = "verify"
    /\ UNCHANGED <<channels_nb, recframe, measureframe, measures, extracted,
                   linkpos, configparams, configresult, sessionvars, ackresult,
                   callresult, elapsed, acquirevars>>

\* ack, run, boardid = self._verifconfigack(ackframe, configframe) and the end
\* of setconfig
SetconfigVerify ==
    /\ pc = "verify"
    /\ ackresult' = verifconfigack(ackframe, configresult.frame)
    /\ IF ackaccepted(verifconfigack(ackframe, configresult.frame))
       THEN /\ voltage' = configparams.voltage.val
            /\ frequency' = configparams.frequency.val
            /\ impuls_nb' = configparams.impuls_nb.val
            /\ channels_nb' = configparams.channels_nb.val
            /\ integration_nb' = configparams.integration_nb.val
            /\ callresult' = "True"
       ELSE /\ UNCHANGED <<channels_nb, sessionvars>>
            /\ callresult' = "BadAckException"
    /\ pc' = "done"
    /\ UNCHANGED <<recframe, measureframe, measures, extracted, linkpos,
                   configparams, configresult, ackframe, linkops, elapsed,
                   acquirevars>>

NextSetconfig ==
    \/ SetconfigEncode
    \/ FlushRead
    \/ SetconfigSend
    \/ SetconfigReceive
    \/ SetconfigVerify

SpecSetconfig == InitSetconfig /\ [][NextSetconfig]_vars

----------------------------------------------------------------------------
(* acquiremeasures: the header row, then the loop.  Each turn of the loop  *)
(* reads the link, calls getallmeasures, writes a data row if a frame was  *)
(* extracted and sends a measure request if a key was pressed.  The loop   *)
(* is left through KeyboardInterrupt, which the loop catches, or through   *)
(* any other exception, which it does not.                                 *)

REQUESTMEASURE_CMD == <<128>>

\* a frame with current codes ip, iq; the phase potential code of channel 0
\* is 7 and the other potential codes are 0
AcquireFrame(chn, ip, iq) ==
    deviceframe(1, 2, 3, ip, iq, [j \in 1 .. 2 * chn |-> IF j = 1 THEN 7 ELSE 0])

\* what a read of the link may return during the acquisition: nothing, a
\* frame, a frame with both currents zero, a frame with a negative current, a
\* frame with a wrong tag bit, the first seven bytes of a frame, the rest of it
AcquireChunks(chn) ==
    {<< >>,
     AcquireFrame(chn, 5, 6),
     AcquireFrame(chn, 0, 0),
     AcquireFrame(chn, Pow2(28) - 3, 0),
     fliptags(AcquireFrame(chn, 5, 6), {3}),
     SubSeq(AcquireFrame(chn, 5, 6), 1, 7),
     SubSeq(AcquireFrame(chn, 5, 6), 8, framelength(chn))}

InitAcquire ==
    /\ \E chn \in 0 .. MaxChannels : ConfiguredSession(chn)
    /\ NoSetconfig
    /\ NoAcquire
    /\ recframe = << >>
    /\ measureframe = << >>
    /\ measures = NoMeasures
    /\ extracted = << >>
    /\ linkpos = 0
    /\ pc = "header"
    /\ configparams = NoConfigCall
    /\ configresult = NoConfigResult

\* the header row: csvline is built from COMMONFIELDS_LIST and written
AcquireHeader ==
    /\ pc = "header"
    /\ output' = <<headerline(headerfields(COMMONFIELDS_LIST, channels_nb,
                                           datetimedisplay))>>
    /\ COMMONFIELDS_LIST' = commonafterheader(COMMONFIELDS_LIST, channels_nb,
                                              datetimedisplay)
    /\ pc' = "update"
    /\ UNCHANGED <<channels_nb, recframe, measureframe, measures, extracted,
                   linkpos, configparams, configresult, sessionvars,
                   setconfigvars, allmeasures, fieldnames, datetimedisplay,
                   calls>>

\* self.updatereceptionframe(None, 0.1)
AcquireUpdate ==
    /\ pc = "update"
    /\ \E chunk \in AcquireChunks(channels_nb) :
        /\ linkpos + Len(chunk) <= NFrames * framelength(channels_nb)
        /\ UpdateReceptionFrame(chunk)
        /\ linkpos' = linkpos + Len(chunk)
    /\ pc' = "get"
    /\ UNCHANGED <<sessionvars, setconfigvars, acquirevars>>

\* the rest of the turn: getallmeasures, the data row, the key press
AcquireGet ==
    /\ pc = "get"
    /\ GetRawMeasures
    /\ LET am == getallmeasures(from_measureframe(recframe, channels_nb)) IN
        /\ allmeasures' = am
        /\ IF am.raised
           THEN /\ callresult' = "ZeroDivisionError"
                /\ pc' = "done"
                /\ UNCHANGED <<output, linkops>>
           ELSE /\ callresult' = callresult
                /\ pc' = "update"
                /\ output' = (IF am.result # TRUE THEN output
                              ELSE IF datetimedisplay = TRUE
                              THEN Append(output, dataline(
                                       dateddatarow(am, channels_nb)))
                              ELSE Append(output, dataline(
                                       datarow(am, channels_nb))))
                /\ \E kbhit \in BOOLEAN :
                    /\ kbhit => Len(linkops) < MaxRequests
                    /\ linkops' = (IF kbhit
                                   THEN Append(linkops, linkwrite(REQUESTMEASURE_CMD))
                                   ELSE linkops)
    /\ UNCHANGED <<linkpos, sessionvars, ackframe, ackresult, elapsed, fieldvars>>

\* except KeyboardInterrupt: break
AcquireInterrupt ==
    /\ pc \in {"update", "get"}
    /\ callresult' = "KeyboardInterrupt"
    /\ pc' = "done"
    /\ UNCHANGED <<channels_nb, recframe, measureframe, measures, extracted,
                   linkpos, configparams, configresult, sessionvars, ackframe,
                   ackresult, linkops, elapsed, acquirevars>>

NextAcquire == AcquireHeader \/ AcquireUpdate \/ AcquireGet \/ AcquireInterrupt

SpecAcquire == InitAcquire /\ [][NextAcquire]_vars

----------------------------------------------------------------------------
(* A program that calls getallfieldnames, getrealfieldnames and            *)
(* acquiremeasures, up to MaxCalls times in any order, on a configured     *)
(* session.  The device has one more frame to send.                        *)

\* no call is running: none was made yet, or the acquisition was interrupted
NoCallRunning == pc = "idle" \/ (pc = "done" /\ callresult = "KeyboardInterrupt")

InitFields ==
    /\ \E chn \in 0 .. MaxChannels : ConfiguredSession(chn)
    /\ NoSetconfig
    /\ NoAcquire
    /\ recframe = << >>
    /\ measureframe = << >>
    /\ measures = NoMeasures
    /\ extracted = << >>
    /\ linkpos = (NFrames - 1) * framelength(channels_nb)
    /\ pc = "idle"
    /\ configparams = NoConfigCall
    /\ configresult = NoConfigResult

\* fieldnames = self.getallfieldnames()
GetAllFieldNames ==
    /\ NoCallRunning
    /\ calls < MaxCalls
    /\ calls' = calls + 1
    /\ fieldnames' = [called |-> TRUE, method |-> "getallfieldnames",
                      value |-> getallfieldnames(COMMONFIELDS_LIST, channels_nb)]
    /\ COMMONFIELDS_LIST' = getallfieldnames(COMMONFIELDS_LIST, channels_nb)
    /\ pc' = "idle"
    /\ callresult' = "none"
    /\ UNCHANGED <<channels_nb, recframe, measureframe, measures, extracted,
                   linkpos, configparams, configresult, sessionvars, ackframe,
                   ackresult, linkops, elapsed, allmeasures, output,
                   datetimedisplay>>

\* fieldnames = self.getrealfieldnames()
GetRealFieldNames ==
    /\ NoCallRunning
    /\ calls < MaxCalls
    /\ calls' = calls + 1
    /\ fieldnames' = [called |-> TRUE, method |-> "getrealfieldnames",
                      value |-> getrealfieldnames(COMMONFIELDS_LIST, channels_nb)]
    /\ COMMONFIELDS_LIST' = getrealfieldnames(COMMONFIELDS_LIST, channels_nb)
    /\ pc' = "idle"
    /\ callresult' = "none"
    /\ UNCHANGED <<channels_nb, recframe, measureframe, measures, extracted,
                   linkpos, configparams, configresult, sessionvars, ackframe,
                   ackresult, linkops, elapsed, allmeasures, output,
                   datetimedisplay>>

\* self.acquiremeasures(output, datetimedisplay=dtd) is entered
AcquireCall ==
    /\ NoCallRunning
    /\ calls < MaxCalls
    /\ calls' = calls + 1
    /\ \E dtd \in BOOLEAN : datetimedisplay' = dtd
    /\ output' = << >>
    /\ pc' = "header"
    /\ callresult' = "none"
    /\ UNCHANGED <<channels_nb, recframe, measureframe, measures, extracted,
                   linkpos, configparams, configresult, sessionvars, ackframe,
                   ackresult, linkops, elapsed, allmeasures, COMMONFIELDS_LIST,
                   fieldnames>>

NextFields ==
    \/ GetAllFieldNames
    \/ GetRealFieldNames
    \/ AcquireCall
    \/ AcquireHeader
    \/ AcquireUpdate
    \/ AcquireGet
    \/ AcquireInterrupt

SpecFields == InitFields /\ [][NextFields]_vars

----------------------------------------------------------------------------
(* Properties of the validator and the decoder (SpecFrame).                *)

\* the buffer the last getrawmeasures examined was accepted as a frame
Accepted == measures.result = TRUE /\ Len(measureframe) = framelength(channels_nb)

\* bit 7 and bits 6..0 of a byte
Bit7(b) == (b \div 128) % 2
Low7(b) == b % 128

TagsAre(mf, positions, tag) == \A i \in positions : Bit7(At(mf, i)) = tag

\* the unsigned value the four bytes at offset off carry, 7 bits per byte
Carried28(mf, off) ==
    Low7(At(mf, off)) + 128 * Low7(At(mf, off + 1))
        + 16384 * Low7(At(mf, off + 2)) + 2097152 * Low7(At(mf, off + 3))

\* two's complement over 28 bits
TwosComplement28(raw) == IF raw <= 134217727 THEN raw ELSE raw - 268435456

C3_ChannelTagsAsStated ==
    Accepted =>
        \A k \in 0 .. channels_nb - 1 :
            /\ TagsAre(measureframe, {14 + 8 * k, 14 + 8 * k + 4}, 1)
            /\ TagsAre(measureframe,
                       {14 + 8 * k + j : j \in {1, 2, 3, 5, 6, 7}}, 0)

\* C4 as stated: the decoded phase (quadrature) potential code of channel k is
\* the signed 28-bit value carried by bytes 14+8k..14+8k+3 (14+8k+4..14+8k+7).
C4_PotentialsAsStated ==
    Accepted =>
        \A k \in 0 .. channels_nb - 1 :
            /\ measures.phasepotentialarray[k + 1]
                   = TwosComplement28(Carried28(measureframe, 14 + 8 * k))
            /\ measures.quadpotentialarray[k + 1]
                   = TwosComplement28(Carried28(measureframe, 14 + 8 * k + 4))

\* C5 as stated: every signed field decodes to raw when raw <= 2^27-1 and to
\* raw - 2^28 otherwise, raw being the 28 bits its four bytes carry (the
\* currents at bytes 6 and 10, the potentials where the decoder reads them).
C5_SignedDecodeAsStated ==
    Accepted =>
        /\ measures.phasecurrent = TwosComplement28(Carried28(measureframe, 6))
        /\ measures.quadcurrent = TwosComplement28(Carried28(measureframe, 10))
        /\ \A k \in 0 .. channels_nb - 1 :
            /\ measures.phasepotentialarray[k + 1]
                   = TwosComplement28(Carried28(measureframe, phaseoffset(k)))
            /\ measures.quadpotentialarray[k + 1]
                   = TwosComplement28(Carried28(measureframe, quadoffset(k)))

\* C14: the validator rejects every buffer whose length differs from
\* 14 + 8*channels_nb, whatever its tag bits are: a buffer of length 22 (a
\* correct 1-channel frame) is rejected when channels_nb = 2, a buffer longer
\* than the frame is rejected, and so is an empty buffer.
C14_WrongLengthRejected ==
    Len(measureframe) # 14 + 8 * channels_nb =>
        /\ measures = NoMeasures
        /\ ~ismeasureframevalid(measureframe, channels_nb)
        /\ ~ismeasureframevalid(<< >>, channels_nb)

\* a correct 1-channel frame was rejected by a session configured for two
\* channels
C14_Witness ==
    /\ channels_nb = 2
    /\ Len(measureframe) = 22
    /\ measureframe = BaseFrame(1)
    /\ ismeasureframevalid(measureframe, 1)
    /\ measures.result = FALSE
    /\ recframe = measureframe

----------------------------------------------------------------------------
(* Properties of the header fields (SpecHeader).                           *)

\* C15: in a valid frame the three 2-byte header fields are decoded as
\* unsigned 14-bit values, low 7 bits first: count = (b0 & 0x7F) +
\* ((b1 & 0x7F) << 7), and bytes 2-3, 4-5 likewise; a frame carrying v in
\* 0..16383 decodes back to v (encoding the decoded values gives the header
\* bytes back) and the tag bits never reach the value.
C15_HeaderFieldsRoundTrip ==
    Accepted =>
        /\ measures.count = Low7(At(measureframe, 0)) + 128 * Low7(At(measureframe, 1))
        /\ measures.recbatvoltage
               = Low7(At(measureframe, 2)) + 128 * Low7(At(measureframe, 3))
        /\ measures.embatvoltage
               = Low7(At(measureframe, 4)) + 128 * Low7(At(measureframe, 5))
        /\ {measures.count, measures.recbatvoltage, measures.embatvoltage}
               \subseteq 0 .. 16383
        /\ SubSeq(measureframe, 1, 6)
               = SubSeq(deviceframe(measures.count, measures.recbatvoltage,
                                    measures.embatvoltage, 0, 0, << >>), 1, 6)

\* a frame carrying 16383 as reception battery code and 0 in the two other
\* fields was decoded to these values
C15_Witness ==
    /\ Accepted
    /\ measureframe = HeaderFrame(channels_nb, 1, 16383)
    /\ measures.recbatvoltage = 16383
    /\ measures.count = 0
    /\ measures.embatvoltage = 0

----------------------------------------------------------------------------
(* Properties of the acquisition cycle (SpecStream).                       *)

\* C1 as stated: on a stream of back-to-back well-formed frames split
\* arbitrarily across reads, the frames extracted so far are the first frames
\* of the stream, each once and in arrival order, and no frame is left in the
\* buffer unextracted: a getrawmeasures that extracts nothing was handed a
\* buffer that does not yet hold a complete frame.
C1_EveryFrameExtractedInOrder ==
    /\ \A i \in 1 .. Len(extracted) :
           extracted[i] = from_measureframe(StreamFrame(channels_nb, i), channels_nb)
    /\ measures.result = FALSE => Len(measureframe) < framelength(channels_nb)

----------------------------------------------------------------------------
(* Properties of the configuration encoder (SpecConfig).                   *)

\* the call of _to_configframe returned a frame
FrameReturned == configresult.called /\ ~configresult.raised

CountParams ==
    {configparams.impuls_nb, configparams.channels_nb, configparams.integration_nb}

NonNegativeCounts == \A p \in CountParams : p.isnum /\ p.val >= 0

\* bits lo..hi of x >= 0
Bits(x, lo, hi) == (x \div (2 ^ lo)) % (2 ^ (hi - lo + 1))

\* C6: a returned frame has exactly 10 bytes, each in 0..255; byte 0 has bit 7
\* and bit 0 set, bytes 1..9 have bit 7 clear, byte 1 <= 3 and byte 5 <= 15.
C6_ConfigFrameShape ==
    FrameReturned =>
        LET fr == configresult.frame IN
        /\ Len(fr) = 10
        /\ \A j \in 1 .. Len(fr) : fr[j] \in 0 .. 255
        /\ Bit7(At(fr, 0)) = 1
        /\ At(fr, 0) % 2 = 1
        /\ TagsAre(fr, 1 .. 9, 0)
        /\ At(fr, 1) <= 3
        /\ At(fr, 5) <= 15

\* a frame was returned for a channel count above 127 and a negative
\* integration count
C6_Witness ==
    /\ FrameReturned
    /\ configparams.channels_nb.val > 127
    /\ configparams.integration_nb.val < 0
    /\ Len(configresult.frame) = 10

\* C7: for counts in impulseCount 0..127, channelCount 0..255, integrationCount
\* 0..16383 the returned frame is byte0 = 0x81 | ((Ux & 0x3F) << 1),
\* byte1 = Ux bits 6-7, bytes 2..5 = Fx bits 0-6, 7-13, 14-20, 21-24,
\* byte6 = impulseCount bits 0-6, byte7 = channelCount bits 0-6,
\* bytes 8, 9 = integrationCount bits 0-6, 7-13.
C7_ConfigFrameLayout ==
    (FrameReturned /\ NonNegativeCounts) =>
        LET Ux == voltagetoUx(configparams.voltage.val)
            Fx == frequencytoFx(configparams.frequency.val)
        IN  configresult.frame =
                << 129 + 2 * Bits(Ux, 0, 5), Bits(Ux, 6, 7),
                   Bits(Fx, 0, 6), Bits(Fx, 7, 13), Bits(Fx, 14, 20), Bits(Fx, 21, 24),
                   Bits(configparams.impuls_nb.val, 0, 6),
                   Bits(configparams.channels_nb.val, 0, 6),
                   Bits(configparams.integration_nb.val, 0, 6),
                   Bits(configparams.integration_nb.val, 7, 13) >>

\* a frame was returned for a voltage whose Ux has bits 6 and 7 set
C7_Witness ==
    /\ FrameReturned
    /\ NonNegativeCounts
    /\ voltagetoUx(configparams.voltage.val) >= 192
    /\ At(configresult.frame, 1) = 3

InPhysicalRanges ==
    /\ configparams.voltage.isnum
    /\ configparams.voltage.val >= 1655 /\ configparams.voltage.val <= 19651
    /\ configparams.frequency.isnum
    /\ configparams.frequency.val >= 0 /\ configparams.frequency.val <= 62499
    /\ configparams.impuls_nb.isnum /\ configparams.impuls_nb.val <= 127
    /\ configparams.channels_nb.isnum /\ configparams.channels_nb.val <= 255
    /\ configparams.integration_nb.isnum /\ configparams.integration_nb.val <= 16383

OutsideARange ==
    \/ configparams.voltage.isnum
         /\ (configparams.voltage.val < 1655 \/ configparams.voltage.val > 19651)
    \/ configparams.frequency.isnum
         /\ (configparams.frequency.val < 0 \/ configparams.frequency.val > 62499)
    \/ configparams.impuls_nb.isnum /\ configparams.impuls_nb.val > 127
    \/ configparams.channels_nb.isnum /\ configparams.channels_nb.val > 255
    \/ configparams.integration_nb.isnum /\ configparams.integration_nb.val > 16383

\* C8: the call raises whenever the voltage is outside [16.55, 196.51], the
\* frequency outside [0, 62499], impulseCount > 127, channelCount > 255 or
\* integrationCount > 16383; every tuple inside the five ranges with
\* non-negative integer counts yields a frame.
C8_RaisesExactlyOutsideRanges ==
    configresult.called =>
        /\ OutsideARange => configresult.raised
        /\ (InPhysicalRanges /\ NonNegativeCounts) => ~configresult.raised

\* a frame was returned with every parameter on the upper limit of its range
C8_Witness ==
    /\ FrameReturned
    /\ configparams.voltage.val = 19651
    /\ configparams.frequency.val = 62499
    /\ configparams.impuls_nb.val = 127
    /\ configparams.channels_nb.val = 255
    /\ configparams.integration_nb.val = 16383

\* C9 as stated: a call with a negative impulseCount, channelCount or
\* integrationCount raises; no frame is produced from a negative count.
C9_NegativeCountsRejected ==
    (configresult.called /\ \E p \in CountParams : p.isnum /\ p.val < 0)
        => configresult.raised

\* C10: a call whose Ux exceeds 255 or whose Fx exceeds 33554431 raises; every
\* returned frame was packed from a Ux in 0..255 and an Fx in 0..33554431, and
\* the frame carries every bit of both.
C10_NoConversionOverflow ==
    /\ (configresult.called /\ configparams.voltage.isnum
            /\ configparams.voltage.val > 0
            /\ voltagetoUx(configparams.voltage.val) > 255) => configresult.raised
    /\ (configresult.called /\ configparams.frequency.isnum
            /\ frequencytoFx(configparams.frequency.val) > 33554431)
           => configresult.raised
    /\ FrameReturned =>
        LET Ux == voltagetoUx(configparams.voltage.val)
            Fx == frequencytoFx(configparams.frequency.val)
            fr == configresult.frame
        IN  /\ Ux \in 0 .. 255
            /\ Fx \in 0 .. 33554431
            /\ Ux = ((At(fr, 0) - 129) \div 2) + 64 * At(fr, 1)
            /\ Fx = At(fr, 2) + 128 * At(fr, 3) + 16384 * At(fr, 4)
                        + 2097152 * At(fr, 5)

\* a frame was returned for the largest Ux, at the lowest voltage of the range
C10_Witness ==
    /\ FrameReturned
    /\ configparams.voltage.val = 1655
    /\ voltagetoUx(configparams.voltage.val) = 255
    /\ At(configresult.frame, 0) = 255

----------------------------------------------------------------------------
(* Properties of the acknowledgement verifier (SpecAck).                   *)

Verified == ackresult.called /\ ackresult.ack = TRUE

\* the status byte of an acknowledgement of the right length
StatusByte == ackframe[Len(ackframe)]

\* C11: _verifconfigack reports success if and only if the acknowledgement has
\* exactly len(configframe)+1 bytes (11) and its first 10 bytes equal the
\* configuration frame; any other acknowledgement is reported as failure with
\* run = 0 and boardId = 0, whatever its last byte is.
C11_AckSuccessIffEcho ==
    ackresult.called =>
        /\ Len(configresult.frame) = 10
        /\ ackresult.ack = TRUE <=>
              /\ Len(ackframe) = 11
              /\ SubSeq(ackframe, 1, 10) = configresult.frame
        /\ ackresult.ack = FALSE => (ackresult.run = 0 /\ ackresult.boardid = 0)

\* an acknowledgement of the right length that differs from the configuration
\* frame in its tenth byte only, with every bit of its last byte set, was
\* reported as a failure
C11_Witness ==
    /\ ackresult.called
    /\ ackresult.ack = FALSE
    /\ Len(ackframe) = 11
    /\ SubSeq(ackframe, 1, 9) = SubSeq(configresult.frame, 1, 9)
    /\ ackframe[10] # configresult.frame[10]
    /\ StatusByte = 255
    /\ ackresult.run = 0
    /\ ackresult.boardid = 0

\* C12: on a matching acknowledgement with status byte s, run is bit 0 of s and
\* boardId is bits 1..6 of s (0..63, bit 7 ignored); s = 0x05 gives run = 1 and
\* boardId = 2.
C12_StatusByteDecoded ==
    Verified =>
        /\ ackresult.run = Bits(StatusByte, 0, 0)
        /\ ackresult.boardid = Bits(StatusByte, 1, 6)
        /\ ackresult.boardid \in 0 .. 63
        /\ StatusByte = 5 => (ackresult.run = 1 /\ ackresult.boardid = 2)

\* a matching acknowledgement whose status byte has bit 7 set was decoded
C12_Witness ==
    /\ Verified
    /\ StatusByte = 133
    /\ ackresult.run = 1
    /\ ackresult.boardid = 2

----------------------------------------------------------------------------
(* Properties of setconfig and flush (SpecSetconfig).                      *)

\* the five stored values, and the five values of the call
Stored == <<voltage, frequency, impuls_nb, channels_nb, integration_nb>>
CallValues ==
    <<configparams.voltage.val, configparams.frequency.val,
      configparams.impuls_nb.val, configparams.channels_nb.val,
      configparams.integration_nb.val>>

\* the acknowledgement read has the wrong length or differs from the frame sent
AckWrong ==
    \/ Len(ackframe) # 11
    \/ SubSeq(ackframe, 1, 10) # configresult.frame

\* C13: setconfig updates voltage, frequency, impuls_nb, channels_nb and
\* integration_nb only after the acknowledgement has been verified; on a wrong
\* acknowledgement (mismatch, wrong length, short or empty read) it raises
\* BadAckException and the five stored values keep their values.
C13_StoredOnlyAfterVerifiedAck ==
    [][/\ Stored' # Stored =>
            /\ pc = "verify"
            /\ ~AckWrong
            /\ ackresult'.ack = TRUE
       /\ (pc = "verify" /\ AckWrong) =>
            /\ callresult' = "BadAckException"
            /\ Stored' = Stored
       /\ (pc = "verify" /\ ~AckWrong) =>
            /\ callresult' = "True"
            /\ Stored' = CallValues]_vars

\* a setconfig on a configured session raised BadAckException on an empty read
\* and the session still holds the earlier configuration
C13_Witness ==
    /\ callresult = "BadAckException"
    /\ ackframe = << >>
    /\ configparams.voltage.val = 19651
    /\ configparams.channels_nb.val = 255
    /\ Stored = <<5000, 1000, 5, 1, 300>>

\* the link calls ops are zero or more reads of flush, the last of which
\* returned nothing, then one write of the 10-byte frame, then at most one read
\* of at most 11 bytes
LinkCallsInOrder(ops, frame) ==
    LET n == Len(ops)
        writes == {i \in 1 .. n : ops[i].op = "write"}
    IN  /\ Cardinality(writes) <= 1
        /\ \A i \in 1 .. n :
               (\A w \in writes : i < w) =>
                   (ops[i].op = "read" /\ ops[i].size = NoSize)
        /\ \A w \in writes :
            /\ w > 1
            /\ ops[w - 1].data = << >>
            /\ \A i \in 1 .. w - 2 : ops[i].data # << >>
            /\ ops[w].data = frame
            /\ Len(ops[w].data) = 10
            /\ n <= w + 1
            /\ n = w + 1 =>
                /\ ops[n].op = "read"
                /\ ops[n].size = 11
                /\ Len(ops[n].data) <= 11

\* C19: setconfig validates and encodes the parameters first; if they are
\* rejected nothing is flushed, written to or read from the link and the
\* session is unchanged; otherwise the link is flushed, then the 10-byte frame
\* is written exactly once, then one read of at most 11 bytes is made, and only
\* then is the acknowledgement verified.
C19_SetconfigStepsInOrder ==
    [][/\ pc = "encode" =>
            /\ linkops' = << >>
            /\ Stored' = Stored
            /\ recframe' = recframe
            /\ configresult'.raised =>
                 (pc' = "done" /\ callresult' = "BadConfigParamException")
       /\ linkops' # linkops => (configresult.called /\ ~configresult.raised)
       /\ LinkCallsInOrder(linkops', configresult'.frame)
       /\ ackresult'.called =>
            /\ Len(linkops') >= 3
            /\ linkops'[Len(linkops') - 1].op = "write"
            /\ linkops'[Len(linkops')] = linkread(11, ackframe')]_vars

\* a setconfig returned True after a flush that read data once, one write and
\* one read
C19_Witness ==
    /\ callresult = "True"
    /\ Len(linkops) = 4
    /\ linkops[1].data # << >>
    /\ linkops[2].data = << >>
    /\ linkops[3].op = "write"
    /\ linkops[4].op = "read"

\* C20: flush returns normally only immediately after a link read that returned
\* zero bytes; a read that returns data once more than flushtimeout has elapsed
\* makes flush raise BadFlushException; bytes read during flush are never
\* appended to the reception buffer; after a BadFlushException inside setconfig
\* no configuration frame is sent.
C20_FlushDrainsOrRaises ==
    [][/\ pc' = "send" =>
            /\ pc = "flush"
            /\ linkops'[Len(linkops')] = linkread(NoSize, << >>)
       /\ (pc = "flush" /\ linkops'[Len(linkops')].data # << >>
               /\ elapsed' > FlushTimeout) =>
            callresult' = "BadFlushException"
       /\ pc = "flush" => recframe' = recframe
       /\ callresult' = "BadFlushException" =>
            /\ pc = "flush"
            /\ pc' = "done"
            /\ elapsed' > FlushTimeout
            /\ linkops'[Len(linkops')].data # << >>
            /\ \A i \in 1 .. Len(linkops') : linkops'[i].op = "read"]_vars

\* flush raised after two reads that returned data, with bytes of an earlier
\* acquisition still in the reception buffer and nothing written to the link
C20_Witness ==
    /\ callresult = "BadFlushException"
    /\ pc = "done"
    /\ Len(linkops) = 2
    /\ \A i \in 1 .. 2 : linkops[i].op = "read" /\ linkops[i].data # << >>
    /\ recframe = SubSeq(BaseFrame(0), 1, 5)

----------------------------------------------------------------------------
(* Properties of the acquisition loop (SpecAcquire).                       *)

\* this step is the getallmeasures part of a turn of the loop
GetStep == pc = "get" /\ callresult' # "KeyboardInterrupt"

\* this step is the updatereceptionframe part of a turn of the loop
UpdateStep == pc = "update" /\ callresult' # "KeyboardInterrupt"

\* the buffer is empty, too short, too long or has a wrong header tag bit
BufferNotAFrame ==
    \/ Len(recframe) = 0
    \/ Len(recframe) < 14 + 8 * channels_nb
    \/ Len(recframe) > 14 + 8 * channels_nb
    \/ ~TagsAre(recframe, {0, 1, 2, 4, 6, 10}, 1)
    \/ ~TagsAre(recframe, {3, 5, 7, 8, 9, 11, 12, 13}, 0)

\* C16: getrawmeasures changes the reception buffer only when it extracts a
\* valid frame, and then the buffer becomes empty; when the buffer is empty,
\* too short, too long or fails a tag-bit check it returns
\* (False, 0, 0, 0, 0, 0, [], []) and leaves the buffer as it was, and the next
\* read is appended to it.
C16_BufferClearedOnlyOnExtraction ==
    [][/\ GetStep =>
            /\ recframe' # recframe =>
                 (measures'.result = TRUE /\ ~BufferNotAFrame)
            /\ measures'.result = TRUE => recframe' = << >>
            /\ measures'.result # TRUE =>
                 (measures' = NoMeasures /\ recframe' = recframe)
            /\ BufferNotAFrame =>
                 (measures' = NoMeasures /\ recframe' = recframe)
       /\ UpdateStep =>
            /\ Len(recframe') >= Len(recframe)
            /\ SubSeq(recframe', 1, Len(recframe)) = recframe]_vars

\* a buffer with a wrong tag bit was rejected and kept, the next read was
\* appended to it and the longer buffer was rejected and kept again
C16_Witness ==
    /\ pc = "update"
    /\ measures = NoMeasures
    /\ measureframe = recframe
    /\ Len(recframe) > framelength(channels_nb)
    /\ SubSeq(recframe, 1, framelength(channels_nb))
           = fliptags(AcquireFrame(channels_nb, 5, 6), {3})

\* C17 as stated: after a valid frame whose phase and quadrature current codes
\* are both zero, getallmeasures has returned (no exception was raised) and the
\* acquisition loop is still running or was left through KeyboardInterrupt.
C17_ZeroCurrentsDoNotCrash ==
    (allmeasures.called /\ measures.result = TRUE
         /\ measures.phasecurrent = 0 /\ measures.quadcurrent = 0) =>
        /\ ~allmeasures.raised
        /\ callresult \in {"none", "KeyboardInterrupt"}

\* C18 as stated: a turn of the loop whose buffer fails validation writes no
\* data row, raises no error and goes on to the next poll; the loop is left
\* only through KeyboardInterrupt.
C18_LoopLeftOnlyByInterrupt ==
    [][/\ (GetStep /\ ~ismeasureframevalid(recframe, channels_nb)) =>
            /\ output' = output
            /\ callresult' = "none"
            /\ pc' = "update"
       /\ pc' = "done" => callresult' = "KeyboardInterrupt"]_vars

----------------------------------------------------------------------------
(* Properties of the header row and of the field-name methods              *)
(* (SpecFields).                                                           *)

\* acquiremeasures has passed its header part
HeaderPassed == pc \in {"update", "get", "done"}

\* the number of fields the header should have
HeaderLength == (IF datetimedisplay THEN 6 ELSE 5) + 4 * channels_nb

\* C21 as stated: once acquiremeasures has passed its header part, the first
\* line of its output is the header and no other line is; the header has
\* 5 + 4n fields (6 + 4n when the date is displayed) and every data row has as
\* many fields as the header.
C21_HeaderOnceThenRows ==
    /\ HeaderPassed => Len(output) >= 1
    /\ Len(output) >= 1 =>
        /\ output[1].written = "header"
        /\ Len(output[1].fields) = HeaderLength
        /\ \A k \in 2 .. Len(output) :
            /\ output[k].written = "data"
            /\ Len(output[k].fields) = Len(output[1].fields)

\* the names the methods should return for n channels: the 5 common names,
\* then per channel the potential names (and the resistivity names)
ExpectedNames(n, withresistivity) ==
    << <<"count">>, <<"rec. batt. voltage(V)">>, <<"em. batt. voltage(V)">>,
       <<"phase current(mA)">>, <<"quad. current(mA)">> >>
    \o [j \in 1 .. (IF withresistivity THEN 4 ELSE 2) * n |->
          LET per == IF withresistivity THEN 4 ELSE 2
              ch == (j - 1) \div per
              f == (j - 1) % per
          IN  IF f = 0 THEN <<"phase potential(mV) (ch%d)", ch>>
              ELSE IF f = 1 THEN <<"quad. potential(mV) (ch%d)", ch>>
              ELSE IF f = 2 THEN <<"phase resistivity(kOhm.m) (ch%d)", ch>>
              ELSE <<"quad. resistivity(kOhm.m) (ch%d)", ch>>]

\* this step is a call of getallfieldnames or of getrealfieldnames
FieldNamesStep == calls' = calls + 1 /\ pc' = "idle"

\* C22 as stated: every call of getallfieldnames returns the 5 common names
\* followed by the 4n per-channel names, every call of getrealfieldnames the 5
\* common names followed by the 2n potential names, whatever calls were made
\* before, and COMMONFIELDS_LIST holds its 5 names afterwards.
C22_FieldNamesRepeatable ==
    [][FieldNamesStep =>
         /\ fieldnames'.method = "getallfieldnames" =>
                fieldnames'.value = ExpectedNames(channels_nb, TRUE)
         /\ fieldnames'.method = "getrealfieldnames" =>
                fieldnames'.value = ExpectedNames(channels_nb, FALSE)
         /\ COMMONFIELDS_LIST' = ExpectedNames(0, TRUE)]_vars

----------------------------------------------------------------------------
(* Properties of the session after a successful setconfig (SpecSetconfig). *)

\* setconfig has returned True
SetconfigSucceeded == pc = "done" /\ callresult = "True"

\* C23 as stated: after a successful setconfig the channel count stored in the
\* session equals the channel count carried in byte 7 of the configuration
\* frame that the device acknowledged.
C23_StoredCountIsAcknowledgedCount ==
    SetconfigSucceeded =>
        /\ channels_nb = At(configresult.frame, 7)
        /\ channels_nb = At(ackframe, 7)

\* C24 as stated: after a successful setconfig the reception buffer is empty.
C24_BufferEmptyAfterSetconfig ==
    SetconfigSucceeded => recframe = << >>

============================================================================
